---- MODULE Spec2Model ----
(***************************************************************************)
(* A model of mindbender's Maya helpers (src/mindbender/maya/lib.py) and   *)
(* of the ValidateMindbenderID plug-in (src/mindbender/plugins/            *)
(* validate_id.py).  The host's scene (nodes, attributes, selection,       *)
(* namespaces) is the state; every helper is one action that performs the  *)
(* host calls the code performs, in the code's order.  Each helper has a   *)
(* specification of its own, in which the other helpers' state is idle.    *)
(***************************************************************************)
EXTENDS Integers, Sequences, FiniteSets, TLC

VARIABLES
    \* ---- maintained_selection
    selection,            \* the host's active list, in selection order
    previous_selection,   \* lib.py:191, the list saved at entry
    entry_selection,      \* history: the active list when the context was entered
    body_selection,       \* history: the active list the body left behind
    ms_pc,                \* "outside" | "body" | "exited"
    ms_exc,               \* whether the body left by raising
    \* ---- unique_name
    objects,              \* the names of the scene's objects, namespace included
    un_args,              \* the arguments of the call
    un_iteration,         \* lib.py:36, the number tried last
    un_ret,               \* the returned value
    un_pc,                \* "call" | "returned"
    \* ---- export_alembic
    playback,             \* the host's animation range
    ab_args,              \* the arguments of the call
    ab_result,            \* "ok" or the exception raised
    ab_cmd,               \* the string handed to mel.eval
    ab_pc,                \* "call" | "returned"
    \* ---- imprint and read
    attrs,                \* the node's user-defined attributes
    im_data,              \* the mapping handed to imprint, as items() yields it
    im_before,            \* history: the node's attributes before imprint
    im_result,            \* "ok" or the exception raised
    rd_ret,               \* what read returned
    at_pc,                \* "call" | "imprinted" | "read"
    \* ---- ValidateMindbenderID
    vi_scene,             \* the instance's descendants, as the host lists them
    vi_result,            \* "pass" or the exception raised
    vi_message,           \* the nodes named by the assertion's message
    vi_pc,                \* "call" | "returned"
    \* ---- lsattr and lsattrs
    ls_scene,             \* the scene's nodes, their paths and attributes
    ls_numeric,           \* what the host's asString does on a numeric plug
    ls_attrs,             \* the mapping handed to lsattrs
    ls_first,             \* lib.py:370, the key the iterator yields first
    ls_host_error,        \* the error the host raises building the list
    ls_result,            \* "ok" or the exception raised
    ls_ret,               \* the returned list
    lsattr_args,          \* the arguments of the call of lsattr
    lsattr_result,        \* "ok" or the exception lsattr raised
    lsattr_ret,           \* the list lsattr returned
    ls_pc,                \* "call" | "returned"
    \* ---- serialise_shaders
    sh_scene,             \* transforms: shape, mbID, shading engines
    sh_nodes,             \* the argument
    sh_ret,               \* the returned dictionary
    sh_pc                 \* "call" | "returned"

selVars == <<selection, previous_selection, entry_selection, body_selection,
            ms_pc, ms_exc>>
nameVars == <<objects, un_args, un_iteration, un_ret, un_pc>>
abcVars == <<playback, ab_args, ab_result, ab_cmd, ab_pc>>
attrVars == <<attrs, im_data, im_before, im_result, rd_ret, at_pc>>
valVars == <<vi_scene, vi_result, vi_message, vi_pc>>
lsVars == <<ls_scene, ls_numeric, ls_attrs, ls_first, ls_host_error, ls_result,
            ls_ret, lsattr_args, lsattr_result, lsattr_ret, ls_pc>>
shVars == <<sh_scene, sh_nodes, sh_ret, sh_pc>>

vars == <<selVars, nameVars, abcVars, attrVars, valVars, lsVars, shVars>>

\* ------------------------------------------------------------------------
\* Generic helpers
\* ------------------------------------------------------------------------

None == [t |-> "none"]

SeqToSet(s) == {s[i] : i \in DOMAIN s}

\* The sequences over S without repeated elements.
RECURSIVE Perms(_)
Perms(S) ==
    IF S = {} THEN {<<>>}
    ELSE UNION {{<<x>> \o p : p \in Perms(S \ {x})} : x \in S}

Arrangements(S) == UNION {Perms(T) : T \in SUBSET S}

\* s without the elements of R, order kept.
RECURSIVE Without(_, _)
Without(s, R) ==
    IF s = <<>> THEN <<>>
    ELSE IF Head(s) \in R THEN Without(Tail(s), R)
         ELSE <<Head(s)>> \o Without(Tail(s), R)

\* s with its later repetitions dropped.
RECURSIVE Dedup(_)
Dedup(s) ==
    IF s = <<>> THEN <<>>
    ELSE <<Head(s)>> \o Dedup(Without(Tail(s), {Head(s)}))

\* ------------------------------------------------------------------------
\* States of the parts a specification leaves alone
\* ------------------------------------------------------------------------

IdleSel ==
    /\ selection = <<>>
    /\ previous_selection = <<>>
    /\ entry_selection = <<>>
    /\ body_selection = <<>>
    /\ ms_pc = "idle"
    /\ ms_exc = FALSE

IdleName ==
    /\ objects = {}
    /\ un_args = None
    /\ un_iteration = 0
    /\ un_ret = None
    /\ un_pc = "idle"

IdleAbc ==
    /\ playback = None
    /\ ab_args = None
    /\ ab_result = "none"
    /\ ab_cmd = <<>>
    /\ ab_pc = "idle"

IdleAttr ==
    /\ attrs = <<>>
    /\ im_data = <<>>
    /\ im_before = <<>>
    /\ im_result = "none"
    /\ rd_ret = {}
    /\ at_pc = "idle"

IdleVal ==
    /\ vi_scene = <<>>
    /\ vi_result = "none"
    /\ vi_message = <<>>
    /\ vi_pc = "idle"

IdleLs ==
    /\ ls_scene = {}
    /\ ls_numeric = "none"
    /\ ls_attrs = <<>>
    /\ ls_first = None
    /\ ls_host_error = "none"
    /\ ls_result = "none"
    /\ ls_ret = <<>>
    /\ lsattr_args = None
    /\ lsattr_result = "none"
    /\ lsattr_ret = <<>>
    /\ ls_pc = "idle"

IdleSh ==
    /\ sh_scene = <<>>
    /\ sh_nodes = <<>>
    /\ sh_ret = <<>>
    /\ sh_pc = "idle"

\* ------------------------------------------------------------------------
\* maintained_selection (lib.py:176-201)
\* ------------------------------------------------------------------------

\* The scene of the docstring example, and one object set over it.
SelNodes == {"persp", "Test", "set1"}

SetMembers(n) == IF n = "set1" THEN <<"persp", "Test">> ELSE <<n>>

\* What the host puts on the active list for `items`: an object set stands
\* for its members unless noExpand is given.
RECURSIVE Expand(_, _)
Expand(items, noExpand) ==
    IF items = <<>> THEN <<>>
    ELSE (IF noExpand THEN <<Head(items)>> ELSE SetMembers(Head(items)))
         \o Expand(Tail(items), noExpand)

\* cmds.select(items, replace=True, noExpand=ne)
SelectReplace(sel, items, ne) == Dedup(Expand(items, ne))

\* cmds.select(items, add=True, noExpand=ne)
SelectAdd(sel, items, ne) == Dedup(sel \o Expand(items, ne))

\* cmds.select(items, deselect=True, noExpand=ne); with no items the host
\* takes the active list itself, so that object sets stay selected unless
\* noExpand is given.
SelectDeselect(sel, items, ne) ==
    Without(sel, SeqToSet(Expand(IF items = <<>> THEN sel ELSE items, ne)))

\* cmds.select(clear=True)
SelectClear(sel) == <<>>

\* The finally block of maintained_selection without noExpand.
RestoreExpanding(sel, prev) ==
    IF prev # <<>>
    THEN SelectReplace(sel, prev, FALSE)
    ELSE SelectDeselect(sel, <<>>, FALSE)

\* The finally block of maintained_selection.
RestoreSelection(sel, prev) ==
    IF prev # <<>>
    THEN SelectReplace(sel, prev, TRUE)
    ELSE SelectDeselect(sel, <<>>, TRUE)

InitSel ==
    /\ selection \in Arrangements(SelNodes)
    /\ previous_selection = <<>>
    /\ entry_selection = <<>>
    /\ body_selection = <<>>
    /\ ms_pc = "outside"
    /\ ms_exc = FALSE
    /\ IdleName /\ IdleAbc /\ IdleAttr /\ IdleVal /\ IdleLs /\ IdleSh

\* with maintained_selection(): previous_selection = cmds.ls(selection=True)
MsEnter ==
    /\ ms_pc = "outside"
    /\ previous_selection' = selection
    /\ entry_selection' = selection
    /\ ms_pc' = "body"
    /\ UNCHANGED <<selection, body_selection, ms_exc>>
    /\ UNCHANGED <<nameVars, abcVars, attrVars, valVars, lsVars, shVars>>

\* A selection change made by the body of the with statement.
MsBodySelect ==
    /\ ms_pc = "body"
    /\ \E items \in Arrangements(SelNodes), ne \in BOOLEAN,
          how \in {"replace", "add", "deselect", "clear"} :
          selection' = CASE how = "replace"  -> SelectReplace(selection, items, ne)
                         [] how = "add"      -> SelectAdd(selection, items, ne)
                         [] how = "deselect" -> SelectDeselect(selection, items, ne)
                         [] how = "clear"    -> SelectClear(selection)
    /\ UNCHANGED <<previous_selection, entry_selection, body_selection, ms_pc, ms_exc>>
    /\ UNCHANGED <<nameVars, abcVars, attrVars, valVars, lsVars, shVars>>

\* The body ends, normally or by raising, and the finally block runs.
MsExit ==
    /\ ms_pc = "body"
    /\ \E raised \in BOOLEAN : ms_exc' = raised
    /\ body_selection' = selection
    /\ selection' = RestoreSelection(selection, previous_selection)
    /\ ms_pc' = "exited"
    /\ UNCHANGED <<previous_selection, entry_selection>>
    /\ UNCHANGED <<nameVars, abcVars, attrVars, valVars, lsVars, shVars>>

NextSel == MsEnter \/ MsBodySelect \/ MsExit

SpecSel == InitSel /\ [][NextSel]_vars

\* C1: after the context exits, normally or by an exception, the host
\* selection is the selection held at entry (the empty one when it was empty).
C1_SelectionRestored ==
    ms_pc = "exited" => selection = entry_selection

\* The body replaced a selection that held an object set by another one and
\* raised, and the context has exited.
C1_Witness_Restored ==
    /\ ms_pc = "exited"
    /\ ms_exc
    /\ entry_selection = <<"set1", "Test">>
    /\ body_selection = <<"persp">>
    /\ selection = entry_selection

\* Nothing was selected at entry, the body selected an object set, and the
\* context has exited with nothing selected.
C1_Witness_EmptyRestored ==
    /\ ms_pc = "exited"
    /\ ~ms_exc
    /\ entry_selection = <<>>
    /\ body_selection = <<"set1", "persp">>
    /\ selection = <<>>

\* ------------------------------------------------------------------------
\* unique_name (lib.py:8-46)
\* ------------------------------------------------------------------------
\* A string is the sequence of its characters.

MaxExisting == 2    \* numbered objects exist up to this number
MaxObjects == 3     \* objects in the scene

Digits == <<"0", "1", "2", "3", "4", "5", "6", "7", "8", "9">>

\* str(n) for n >= 0
RECURSIVE Decimal(_)
Decimal(n) ==
    IF n < 10 THEN <<Digits[n + 1]>>
    ELSE Decimal(n \div 10) \o <<Digits[(n % 10) + 1]>>

\* s padded with zeros on the left to `width` characters.
RECURSIVE ZeroPad(_, _)
ZeroPad(s, width) ==
    IF Len(s) >= width THEN s ELSE ZeroPad(<<"0">> \o s, width)

\* format % n for a format "%0<width>d"
FormatNumber(width, n) == ZeroPad(Decimal(n), width)

UnNames == {<<"M", "y">>}
UnWidths == {1, 2}
UnNamespaces == {<<>>, <<"n", "s">>}
UnSuffixes == {<<>>, <<"_", "G">>}

\* The name of the object called `name` in `namespace` (the root one when
\* empty).
Qualified(namespace, name) ==
    IF namespace = <<>> THEN name ELSE namespace \o <<":">> \o name

\* The names an object of the scene may have.
SceneNames ==
    {Qualified(ns, n \o FormatNumber(w, i) \o s) :
        ns \in UnNamespaces, n \in UnNames, w \in UnWidths,
        i \in 1..MaxExisting, s \in UnSuffixes}

\* cmds.objExists(query): a leading ":" names the root namespace.
objExists(objs, query) ==
    LET absolute == IF query # <<>> /\ Head(query) = ":"
                    THEN Tail(query) ELSE query
    IN  absolute \in objs

\* lib.py:37 and 41
UniqueCandidate(a, iteration) ==
    (a.name \o FormatNumber(a.format, iteration)) \o a.suffix

\* lib.py:39 with the namespace left out of the query.
UniqueProbeNoNamespace(objs, a, iteration) ==
    objExists(objs, UniqueCandidate(a, iteration))

\* lib.py:39, the loop's condition
UniqueProbe(objs, a, iteration) ==
    objExists(objs, a.namespace \o <<":">> \o UniqueCandidate(a, iteration))

\* lib.py:36-41: the iteration the loop stops at
RECURSIVE UniqueIteration(_, _, _)
UniqueIteration(objs, a, iteration) ==
    IF UniqueProbe(objs, a, iteration)
    THEN UniqueIteration(objs, a, iteration + 1)
    ELSE iteration

\* lib.py:43-46
UniqueResult(a, unique) ==
    IF a.suffix # <<>>
    THEN SubSeq(unique, 1, Len(unique) - Len(a.suffix))
    ELSE unique

InitName ==
    /\ objects = {}
    /\ un_args = None
    /\ un_iteration = 0
    /\ un_ret = None
    /\ un_pc = "call"
    /\ IdleSel /\ IdleAbc /\ IdleAttr /\ IdleVal /\ IdleLs /\ IdleSh

\* cmds.createNode(..., name=...), as in the docstring's example
CreateNode ==
    /\ un_pc = "call"
    /\ Cardinality(objects) < MaxObjects
    /\ \E n \in SceneNames \ objects : objects' = objects \cup {n}
    /\ UNCHANGED <<un_args, un_iteration, un_ret, un_pc>>
    /\ UNCHANGED <<selVars, abcVars, attrVars, valVars, lsVars, shVars>>

\* unique_name(name, format, namespace, suffix)
UniqueName ==
    /\ un_pc = "call"
    /\ \E n \in UnNames, w \in UnWidths, ns \in UnNamespaces, s \in UnSuffixes :
          LET a == [name |-> n, format |-> w, namespace |-> ns, suffix |-> s]
              it == UniqueIteration(objects, a, 1)
          IN  /\ un_args' = a
              /\ un_iteration' = it
              /\ un_ret' = UniqueResult(a, UniqueCandidate(a, it))
    /\ un_pc' = "returned"
    /\ UNCHANGED objects
    /\ UNCHANGED <<selVars, abcVars, attrVars, valVars, lsVars, shVars>>

NextName == CreateNode \/ UniqueName

SpecName == InitName /\ [][NextName]_vars

\* C2: the value returned is the name and a number, without the suffix, and
\* no object of that name with the suffix exists in the namespace given (in
\* the scene's root namespace when none is given).
C2_UniqueNameIsFree ==
    un_pc = "returned" =>
        /\ \E i \in 1..(MaxObjects + 1) :
              un_ret = un_args.name \o FormatNumber(un_args.format, i)
        /\ Qualified(un_args.namespace, un_ret \o un_args.suffix) \notin objects

\* The first two numbers are taken, with the suffix, in the namespace: the
\* third is returned.
C2_Witness_Skipped ==
    /\ un_pc = "returned"
    /\ un_args.suffix # <<>>
    /\ un_args.namespace # <<>>
    /\ un_iteration = 3
    /\ un_ret = <<"M", "y", "0", "3">>

\* ------------------------------------------------------------------------
\* export_alembic (lib.py:92-144)
\* ------------------------------------------------------------------------
\* A string is the sequence of its pieces; a number is written in decimal.

AbFrames == {1, 24}
AbRanges == {[t |-> "tuple", v |-> <<1, 24>>], [t |-> "tuple", v |-> <<24, 24>>]}
AbNodeLists == Arrangements({"|a", "|b"})
AbPrefixes == {None, [t |-> "str", v |-> <<"mb">>]}

IsSubstring(sub, s) ==
    \E i \in 1..(Len(s) - Len(sub) + 1) : SubSeq(s, i, i + Len(sub) - 1) = sub

\* "%s %s" % args: a value that is not a tuple stands for one argument, and
\* the two conversions want two.
PercentFormat2(args) ==
    LET tuple == IF args.t = "tuple" THEN args.v ELSE <<args>>
    IN  IF Len(tuple) # 2 THEN [exc |-> "TypeError", str |-> <<>>]
        ELSE [exc |-> "none",
              str |-> Decimal(tuple[1]) \o <<" ">> \o Decimal(tuple[2])]

\* lib.py:114
RECURSIVE RootOptions(_)
RootOptions(nodes) ==
    IF nodes = <<>> THEN <<>>
    ELSE <<[key |-> "root", value |-> <<Head(nodes)>>]>> \o RootOptions(Tail(nodes))

\* lib.py:111-125, given the formatted frame range
AlembicOptions(a, range_str) ==
    <<[key |-> "file", value |-> <<a.file>>],
      [key |-> "frameRange", value |-> range_str]>>
    \o RootOptions(a.nodes)
    \o (IF a.attribute_prefix.t = "str"
        THEN <<[key |-> "attrPrefix", value |-> a.attribute_prefix.v]>> ELSE <<>>)
    \o (IF a.uv_write THEN <<[key |-> "uvWrite", value |-> <<>>]>> ELSE <<>>)

\* lib.py:134-138: " ".join("-{0} {1}".format(key, value) ...)
RECURSIVE MelArgs(_)
MelArgs(options) ==
    IF options = <<>> THEN <<>>
    ELSE <<"-", Head(options).key, " ">> \o Head(options).value
         \o (IF Len(options) > 1 THEN <<" ">> ELSE <<>>)
         \o MelArgs(Tail(options))

\* lib.py:139
MelCommand(options) == <<"AbcExport -j ", "\"">> \o MelArgs(options) \o <<"\"">>

\* lib.py:111-144: the exception raised, if any, and the command evaluated.
\* The default of lines 127-131 is computed after the options are built.
ExportAlembicOutcome(a, pb) ==
    LET formatted == PercentFormat2(a.frame_range)
        frame_range == IF a.frame_range = None
                       THEN [t |-> "tuple", v |-> <<pb.ast, pb.aet>>]
                       ELSE a.frame_range
    IN  IF formatted.exc # "none"
        THEN [result |-> formatted.exc, cmd |-> <<>>]
        ELSE [result |-> "ok",
              cmd |-> MelCommand(AlembicOptions(a, formatted.str))]

InitAbc ==
    /\ playback \in [ast : AbFrames, aet : AbFrames]
    /\ ab_args = None
    /\ ab_result = "none"
    /\ ab_cmd = <<>>
    /\ ab_pc = "call"
    /\ IdleSel /\ IdleName /\ IdleAttr /\ IdleVal /\ IdleLs /\ IdleSh

\* export_alembic(nodes, file, frame_range, uv_write, attribute_prefix)
ExportAlembic ==
    /\ ab_pc = "call"
    /\ \E nodes \in AbNodeLists, fr \in {None} \cup AbRanges,
          uv \in BOOLEAN, prefix \in AbPrefixes :
          LET a == [nodes |-> nodes, file |-> "/out.abc", frame_range |-> fr,
                    uv_write |-> uv, attribute_prefix |-> prefix]
              out == ExportAlembicOutcome(a, playback)
          IN  /\ ab_args' = a
              /\ ab_result' = out.result
              /\ ab_cmd' = out.cmd
    /\ ab_pc' = "returned"
    /\ UNCHANGED playback
    /\ UNCHANGED <<selVars, nameVars, attrVars, valVars, lsVars, shVars>>

NextAbc == ExportAlembic

SpecAbc == InitAbc /\ [][NextAbc]_vars

\* The -frameRange option carrying the frames `from` and `to`.
FrameRangeOption(from, to) ==
    <<"-", "frameRange", " ">> \o Decimal(from) \o <<" ">> \o Decimal(to)

\* C3: with frame_range omitted the export completes and its -frameRange
\* option carries the host's playback start and end.
C3_DefaultFrameRange ==
    (ab_pc = "returned" /\ ab_args.frame_range = None) =>
        /\ ab_result = "ok"
        /\ IsSubstring(FrameRangeOption(playback.ast, playback.aet), ab_cmd)

\* With a frame range given, the option carries it (the code path that works).
C3_GivenFrameRange ==
    (ab_pc = "returned" /\ ab_args.frame_range # None) =>
        /\ ab_result = "ok"
        /\ IsSubstring(FrameRangeOption(ab_args.frame_range.v[1],
                                        ab_args.frame_range.v[2]), ab_cmd)

\* ------------------------------------------------------------------------
\* imprint (lib.py:147-173) and read (lib.py:72-89)
\* ------------------------------------------------------------------------
\* A Python value carries its type; a float is written in tenths.  A dict is
\* the sequence of its items in the order items() yields them.  The node's
\* user-defined attributes are listed in the order they were added.

PyBool(b) == [t |-> "bool", v |-> b]
PyInt(i) == [t |-> "int", v |-> i]
PyFloat(tenths) == [t |-> "float", v |-> tenths]
PyStr(s) == [t |-> "str", v |-> s]
PyList(s) == [t |-> "list", v |-> s]

ImKeys == {"k1", "k2"}
SupportedValues ==
    {PyBool(TRUE), PyBool(FALSE), PyInt(0), PyInt(7), PyFloat(15), PyStr(<<>>), PyStr(<<"a">>)}
UnsupportedValues == {None, PyList(<<>>)}
ImValues == SupportedValues \cup UnsupportedValues

\* The dicts over ImKeys, each in every order its items may come.
ImDicts ==
    UNION {{[i \in 1..Len(order) |-> [key |-> order[i], value |-> val[order[i]]]]
              : val \in [SeqToSet(order) -> ImValues]}
           : order \in Arrangements(ImKeys)}

\* The node before imprint: no user-defined attribute, or one.
ImNodes == {<<>>, <<[name |-> "k2", type |-> "long", value |-> PyInt(5)]>>}

AsDict(items) == {<<items[i].key, items[i].value>> : i \in DOMAIN items}

\* isinstance(value, cls); bool is a subclass of int.
IsInstance(value, cls) ==
    CASE cls = "bool"       -> value.t = "bool"
      [] cls = "basestring" -> value.t = "str"
      [] cls = "int"        -> value.t \in {"int", "bool"}
      [] cls = "float"      -> value.t = "float"

\* lib.py:157-170 with the test for int first.
AttributeTypeIntFirst(value) ==
    IF IsInstance(value, "int") THEN "long"
    ELSE IF IsInstance(value, "bool") THEN "bool"
    ELSE IF IsInstance(value, "basestring") THEN "string"
    ELSE IF IsInstance(value, "float") THEN "double"
    ELSE "TypeError"

\* lib.py:157-170: the type of the attribute added, or the TypeError
AttributeType(value) ==
    IF IsInstance(value, "bool") THEN "bool"
    ELSE IF IsInstance(value, "basestring") THEN "string"
    ELSE IF IsInstance(value, "int") THEN "long"
    ELSE IF IsInstance(value, "float") THEN "double"
    ELSE "TypeError"

HasAttr(node_attrs, name) == \E i \in DOMAIN node_attrs : node_attrs[i].name = name

\* What the host holds in a new attribute of the type.
DefaultValue(type) ==
    CASE type = "bool"   -> PyBool(FALSE)
      [] type = "long"   -> PyInt(0)
      [] type = "double" -> PyFloat(0)
      [] type = "string" -> None

\* What the host stores in an attribute of `type` when set to `value`.
Coerced(type, value) ==
    CASE type = "bool"   -> PyBool(IF value.t = "bool" THEN value.v ELSE value.v # 0)
      [] type = "long"   -> PyInt(CASE value.t = "bool"  -> IF value.v THEN 1 ELSE 0
                                  [] value.t = "float" -> value.v \div 10
                                  [] OTHER             -> value.v)
      [] type = "double" -> PyFloat(CASE value.t = "bool" -> IF value.v THEN 10 ELSE 0
                                    [] value.t = "int"  -> value.v * 10
                                    [] OTHER            -> value.v)
      [] type = "string" -> value

\* cmds.addAttr(node, longName=name, ...): the host refuses a name the node has.
addAttr(node_attrs, name, type) ==
    IF HasAttr(node_attrs, name)
    THEN [exc |-> "RuntimeError", attrs |-> node_attrs]
    ELSE [exc |-> "none",
          attrs |-> Append(node_attrs, [name |-> name, type |-> type,
                                        value |-> DefaultValue(type)])]

\* cmds.setAttr(node + "." + name, value, ...)
setAttr(node_attrs, name, value) ==
    [i \in DOMAIN node_attrs |->
        IF node_attrs[i].name = name
        THEN [node_attrs[i] EXCEPT !.value = Coerced(node_attrs[i].type, value)]
        ELSE node_attrs[i]]

\* cmds.getAttr(node + "." + name)
getAttr(node_attrs, name) ==
    LET i == CHOOSE j \in DOMAIN node_attrs : node_attrs[j].name = name
    IN  node_attrs[i].value

\* lib.py:172-173 without the setAttr.
ImprintItemAddOnly(node_attrs, item, type) == addAttr(node_attrs, item.key, type)

\* lib.py:172-173: the attribute is added, then set.
ImprintItem(node_attrs, item, type) ==
    LET added == addAttr(node_attrs, item.key, type)
    IN  IF added.exc # "none" THEN added
        ELSE [exc |-> "none", attrs |-> setAttr(added.attrs, item.key, item.value)]

\* lib.py:156-173: the loop over data.items(), left at the first exception.
RECURSIVE ImprintOutcome(_, _)
ImprintOutcome(node_attrs, items) ==
    IF items = <<>> THEN [result |-> "ok", attrs |-> node_attrs]
    ELSE LET type == AttributeType(Head(items).value)
         IN  IF type = "TypeError"
             THEN [result |-> "TypeError", attrs |-> node_attrs]
             ELSE LET step == ImprintItem(node_attrs, Head(items), type)
                  IN  IF step.exc # "none"
                      THEN [result |-> step.exc, attrs |-> step.attrs]
                      ELSE ImprintOutcome(step.attrs, Tail(items))

\* lib.py:75-89: every user-defined attribute with its value
ReadOutcome(node_attrs) ==
    {<<node_attrs[i].name, getAttr(node_attrs, node_attrs[i].name)>>
        : i \in DOMAIN node_attrs}

InitAttr ==
    /\ attrs \in ImNodes
    /\ im_data = <<>>
    /\ im_before = <<>>
    /\ im_result = "none"
    /\ rd_ret = {}
    /\ at_pc = "call"
    /\ IdleSel /\ IdleName /\ IdleAbc /\ IdleVal /\ IdleLs /\ IdleSh

\* imprint(node, data)
Imprint ==
    /\ at_pc = "call"
    /\ \E data \in ImDicts :
          LET out == ImprintOutcome(attrs, data)
          IN  /\ im_data' = data
              /\ im_before' = attrs
              /\ attrs' = out.attrs
              /\ im_result' = out.result
    /\ at_pc' = "imprinted"
    /\ UNCHANGED rd_ret
    /\ UNCHANGED <<selVars, nameVars, abcVars, valVars, lsVars, shVars>>

\* read(node)
Read ==
    /\ at_pc = "imprinted"
    /\ rd_ret' = ReadOutcome(attrs)
    /\ at_pc' = "read"
    /\ UNCHANGED <<attrs, im_data, im_before, im_result>>
    /\ UNCHANGED <<selVars, nameVars, abcVars, valVars, lsVars, shVars>>

NextAttr == Imprint \/ Read

SpecAttr == InitAttr /\ [][NextAttr]_vars

AllSupported(items) == \A i \in DOMAIN items : items[i].value \in SupportedValues

\* C4: on a node without user-defined attributes, imprint of a mapping of
\* booleans, integers, floats and strings followed by read gives the mapping
\* back, and the node's attributes are after read what imprint made them.
C4_RoundTrip ==
    (at_pc = "read" /\ im_before = <<>> /\ AllSupported(im_data)) =>
        /\ im_result = "ok"
        /\ rd_ret = AsDict(im_data)
        /\ attrs = ImprintOutcome(im_before, im_data).attrs

\* A boolean and an empty string were imprinted and read back.
C4_Witness_RoundTrip ==
    /\ at_pc = "read"
    /\ im_before = <<>>
    /\ im_data = <<[key |-> "k2", value |-> PyBool(TRUE)],
                   [key |-> "k1", value |-> PyStr(<<>>)]>>
    /\ rd_ret = {<<"k1", PyStr(<<>>)>>, <<"k2", PyBool(TRUE)>>}

\* The attribute type the dispatch is to give a value of each supported type.
ExpectedAttributeType(value) ==
    CASE value.t = "bool"  -> "bool"
      [] value.t = "str"   -> "string"
      [] value.t = "int"   -> "long"
      [] value.t = "float" -> "double"

\* The first item imprint cannot write (an unsupported type, or a key the
\* node had already), 0 when there is none.
FirstFailing(before, items) ==
    LET failing == {i \in DOMAIN items :
                       \/ items[i].value \in UnsupportedValues
                       \/ HasAttr(before, items[i].key)}
    IN  IF failing = {} THEN 0
        ELSE CHOOSE i \in failing : \A j \in failing : i <= j

\* C8: imprint writes a boolean as a bool attribute (never a long), a string,
\* an integer and a float as string, long and double; a value of another type
\* raises TypeError, nothing is added for its key or for a later one, and what
\* was written for the earlier keys stays.
C8_DispatchAndAbort ==
    at_pc \in {"imprinted", "read"} =>
        LET n == Len(im_before)
            f == FirstFailing(im_before, im_data)
        IN  /\ Len(attrs) >= n /\ SubSeq(attrs, 1, n) = im_before
            /\ \A i \in 1..(Len(attrs) - n) :
                  attrs[n + i] =
                      [name |-> im_data[i].key,
                       type |-> ExpectedAttributeType(im_data[i].value),
                       value |-> im_data[i].value]
            /\ (f # 0 /\ im_data[f].value \in UnsupportedValues) =>
                  (im_result = "TypeError" /\ Len(attrs) = n + f - 1)
            /\ im_result = "TypeError" =>
                  (f # 0 /\ im_data[f].value \in UnsupportedValues)
            /\ f = 0 => (im_result = "ok" /\ Len(attrs) = n + Len(im_data))

\* A boolean was written as a bool attribute, then the second key's value, a
\* list, raised TypeError.
C8_Witness_Abort ==
    /\ at_pc = "imprinted"
    /\ im_result = "TypeError"
    /\ im_before = <<>>
    /\ im_data = <<[key |-> "k1", value |-> PyBool(TRUE)],
                   [key |-> "k2", value |-> PyList(<<>>)]>>
    /\ attrs = <<[name |-> "k1", type |-> "bool", value |-> PyBool(TRUE)]>>

\* ------------------------------------------------------------------------
\* ValidateMindbenderID.process (validate_id.py:12-29)
\* ------------------------------------------------------------------------
\* The instance's descendants, in the order the host lists them: each has a
\* shape or not, and the mbID attribute or not.

ViNames == {"a", "b", "c"}

ViScenes ==
    UNION {{[i \in 1..Len(order) |->
                [name |-> order[i], shape |-> f[order[i]].shape, id |-> f[order[i]].id]]
              : f \in [SeqToSet(order) -> [shape : BOOLEAN, id : BOOLEAN]]}
           : order \in Arrangements(ViNames)}

\* cmds.listRelatives(instance, allDescendents=True): None when there is none
listDescendents(scene) ==
    IF scene = <<>> THEN None ELSE [t |-> "list", v |-> scene]

\* validate_id.py:16-26: the nodes appended to `missing`
RECURSIVE MissingID(_)
MissingID(nodes) ==
    IF nodes = <<>> THEN <<>>
    ELSE LET node == Head(nodes)
         IN  (IF node.shape /\ ~node.id THEN <<node.name>> ELSE <<>>)
             \o MissingID(Tail(nodes))

\* validate_id.py:15-29: iterating None is a TypeError
ProcessOutcome(scene) ==
    LET descendents == listDescendents(scene)
    IN  IF descendents = None
        THEN [result |-> "TypeError", message |-> <<>>]
        ELSE LET missing == MissingID(descendents.v)
             IN  IF missing # <<>>
                 THEN [result |-> "AssertionError", message |-> missing]
                 ELSE [result |-> "pass", message |-> <<>>]

InitVal ==
    /\ vi_scene \in ViScenes
    /\ vi_result = "none"
    /\ vi_message = <<>>
    /\ vi_pc = "call"
    /\ IdleSel /\ IdleName /\ IdleAbc /\ IdleAttr /\ IdleLs /\ IdleSh

\* ValidateMindbenderID().process(instance)
Process ==
    /\ vi_pc = "call"
    /\ LET out == ProcessOutcome(vi_scene)
       IN  /\ vi_result' = out.result
           /\ vi_message' = out.message
    /\ vi_pc' = "returned"
    /\ UNCHANGED vi_scene
    /\ UNCHANGED <<selVars, nameVars, abcVars, attrVars, lsVars, shVars>>

NextVal == Process

SpecVal == InitVal /\ [][NextVal]_vars

\* The descendants with a shape and without mbID.
LackingID(scene) ==
    {scene[i].name : i \in {j \in DOMAIN scene : scene[j].shape /\ ~scene[j].id}}

\* C5: process fails with an assertion exactly when a descendant with a shape
\* lacks mbID, the message names every such descendant, and it passes
\* otherwise, also when no descendant has a shape.
C5_FailsExactlyOnMissingID ==
    vi_pc = "returned" =>
        /\ (vi_result = "AssertionError") <=> (LackingID(vi_scene) # {})
        /\ vi_result = "AssertionError" => SeqToSet(vi_message) = LackingID(vi_scene)
        /\ LackingID(vi_scene) = {} => vi_result = "pass"

\* The same, for an instance that has a descendant.
C5_WithDescendants ==
    (vi_pc = "returned" /\ vi_scene # <<>>) =>
        /\ (vi_result = "AssertionError") <=> (LackingID(vi_scene) # {})
        /\ vi_result = "AssertionError" => SeqToSet(vi_message) = LackingID(vi_scene)
        /\ LackingID(vi_scene) = {} => vi_result = "pass"

\* ------------------------------------------------------------------------
\* lsattrs (lib.py:350-400) and lsattr (lib.py:329-347)
\* ------------------------------------------------------------------------
\* A node has a name, the full paths it is found at (a DAG node has one per
\* instance, another node its name) and attributes with their values.

LsShapes ==
    {[name |-> "n", dag |-> TRUE, paths |-> {<<"|g1|n">>, <<"|g2|n">>}],
     [name |-> "d", dag |-> FALSE, paths |-> {<<"d">>}]}

LsAges == {None, PyInt(5), PyStr(<<"5">>)}
LsColors == {None, PyStr(<<"blue">>), PyStr(<<"red">>)}

\* The attributes of a node with the given age and color (None: without).
NodeAttrs(age, color) ==
    (IF age = None THEN {} ELSE {[name |-> "age", value |-> age]})
    \cup (IF color = None THEN {} ELSE {[name |-> "color", value |-> color]})

LsScenes ==
    {{[name |-> s.name, dag |-> s.dag, paths |-> s.paths,
       attrs |-> NodeAttrs(f[s.name].age, f[s.name].color)] : s \in LsShapes}
        : f \in [{s.name : s \in LsShapes} -> [age : LsAges, color : LsColors]]}

\* The mappings handed to lsattrs, in the order their keys are iterated.
LsQueries ==
    {<<[key |-> "age", value |-> PyInt(5)]>>,
     <<[key |-> "age", value |-> PyStr(<<"5">>)]>>,
     <<[key |-> "color", value |-> PyStr(<<"blue">>)]>>,
     <<[key |-> "age", value |-> PyInt(5)], [key |-> "color", value |-> PyStr(<<"blue">>)]>>,
     <<[key |-> "color", value |-> PyStr(<<"blue">>)], [key |-> "age", value |-> PyInt(5)]>>,
     <<[key |-> "age", value |-> PyStr(<<"5">>)], [key |-> "color", value |-> PyStr(<<"blue">>)]>>,
     <<[key |-> "color", value |-> PyStr(<<"blue">>)], [key |-> "age", value |-> PyStr(<<"5">>)]>>}

NodeHasAttr(node, attr) == \E a \in node.attrs : a.name = attr

NodeAttrValue(node, attr) == (CHOOSE a \in node.attrs : a.name = attr).value

\* a == b in Python for the values used here: a string never equals a number.
PyEquals(a, b) == a.t = b.t /\ a.v = b.v

\* plug.asString(): the string of a string plug.  For a numeric plug the
\* host either raises RuntimeError or gives the number in decimal (`numeric`
\* says which).
asString(value, numeric) ==
    IF value.t = "str" THEN [exc |-> "none", str |-> value]
    ELSE IF numeric = "raise" THEN [exc |-> "RuntimeError", str |-> None]
    ELSE [exc |-> "none", str |-> PyStr(Decimal(value.v))]

\* lib.py:390-398: the inner loop, left at the first attribute that is
\* missing or differs
RECURSIVE AllPlugsMatch(_, _, _)
AllPlugsMatch(node, items, numeric) ==
    IF items = <<>> THEN TRUE
    ELSE IF ~NodeHasAttr(node, Head(items).key) THEN FALSE
    ELSE LET s == asString(NodeAttrValue(node, Head(items).key), numeric)
         IN  IF s.exc # "none" THEN FALSE
             ELSE IF ~PyEquals(s.str, Head(items).value) THEN FALSE
             ELSE AllPlugsMatch(node, Tail(items), numeric)

\* selection_list.add("*.<first_attr>", searchChildNamespaces=True): the
\* nodes carrying the attribute, or the error raised.
SelectionListAdd(scene, first_attr, fails) ==
    LET found == {n \in scene : NodeHasAttr(n, first_attr)}
    IN  IF fails THEN [exc |-> "other", nodes |-> {}]
        ELSE IF found = {} THEN [exc |-> "Object does not exist", nodes |-> {}]
        ELSE [exc |-> "none", nodes |-> found]

\* lib.py:372-377: the except clause returns [] for "Object does not exist"
\* and otherwise ends, so that the function goes on.
HandleAddError(exc) ==
    IF exc = "Object does not exist" THEN "return" ELSE "continue"

\* lib.py:366-400: the result and the set of names returned
LsattrsOutcome(scene, items, fails, numeric) ==
    LET first_attr == Head(items).key
        added == SelectionListAdd(scene, first_attr, fails)
        handled == HandleAddError(added.exc)
        matches == UNION {n.paths : n \in {c \in added.nodes :
                                            AllPlugsMatch(c, items, numeric)}}
    IN  CASE handled = "return"   -> [result |-> "ok", host_error |-> added.exc,
                                      matches |-> {}]
          [] handled = "continue" -> [result |-> "ok", host_error |-> added.exc,
                                      matches |-> matches]

\* lib.py:345-347: cmds.ls("*.attr") lists the plugs when no value is given
LsattrOutcome(scene, attr, value, fails, numeric) ==
    IF value = None
    THEN [result |-> "ok", host_error |-> "none",
          matches |-> UNION {{p \o <<".", attr>> : p \in n.paths}
                               : n \in {c \in scene : NodeHasAttr(c, attr)}}]
    ELSE LsattrsOutcome(scene, <<[key |-> attr, value |-> value]>>, fails, numeric)

InitLs ==
    /\ ls_scene \in LsScenes
    /\ ls_numeric \in {"raise", "decimal"}
    /\ ls_attrs = <<>>
    /\ ls_first = None
    /\ ls_host_error = "none"
    /\ ls_result = "none"
    /\ ls_ret = <<>>
    /\ lsattr_args = None
    /\ lsattr_result = "none"
    /\ lsattr_ret = <<>>
    /\ ls_pc = "call"
    /\ IdleSel /\ IdleName /\ IdleAbc /\ IdleAttr /\ IdleVal /\ IdleSh

\* lsattrs(attrs); list(matches) comes in any order
Lsattrs ==
    /\ ls_pc = "call"
    /\ \E items \in LsQueries, fails \in BOOLEAN :
          LET out == LsattrsOutcome(ls_scene, items, fails, ls_numeric)
          IN  /\ ls_attrs' = items
              /\ ls_first' = Head(items).key
              /\ ls_host_error' = out.host_error
              /\ ls_result' = out.result
              /\ ls_ret' \in Perms(out.matches)
    /\ ls_pc' = "returned"
    /\ UNCHANGED <<ls_scene, ls_numeric, lsattr_args, lsattr_result, lsattr_ret>>
    /\ UNCHANGED <<selVars, nameVars, abcVars, attrVars, valVars, shVars>>

\* lsattr(attr, value) in the same scene, the host failing as it did
Lsattr ==
    /\ ls_pc = "returned"
    /\ \E attr \in {"age", "color"},
          value \in {None} \cup (LsAges \cup LsColors) :
          LET out == LsattrOutcome(ls_scene, attr, value,
                                   ls_host_error = "other", ls_numeric)
          IN  /\ lsattr_args' = [attr |-> attr, value |-> value]
              /\ lsattr_result' = out.result
              /\ lsattr_ret' \in Perms(out.matches)
    /\ ls_pc' = "compared"
    /\ UNCHANGED <<ls_scene, ls_numeric, ls_attrs, ls_first, ls_host_error,
                   ls_result, ls_ret>>
    /\ UNCHANGED <<selVars, nameVars, abcVars, attrVars, valVars, shVars>>

NextLs == Lsattrs \/ Lsattr

SpecLs == InitLs /\ [][NextLs]_vars

\* The paths of the nodes that carry every attribute of `items` with a value
\* equal to the one given.
ExpectedPaths(scene, items) ==
    UNION {n.paths : n \in {c \in scene :
        \A i \in DOMAIN items :
            [name |-> items[i].key, value |-> items[i].value] \in c.attrs}}

NoDuplicates(s) == \A i, j \in DOMAIN s : s[i] = s[j] => i = j

Reversed(s) == [i \in DOMAIN s |-> s[Len(s) + 1 - i]]

\* C6: when the host builds the selection list, lsattrs returns, each once,
\* exactly the paths of the nodes carrying every attribute with an equal
\* value, whichever key comes first, and lsattr(attr, value) returns the same
\* as lsattrs({attr: value}).
C6_ExactMatches ==
    (ls_pc \in {"returned", "compared"} /\ ls_host_error # "other") =>
        /\ ls_result = "ok"
        /\ SeqToSet(ls_ret) = ExpectedPaths(ls_scene, ls_attrs)
        /\ NoDuplicates(ls_ret)
        /\ SeqToSet(ls_ret) =
              LsattrsOutcome(ls_scene, Reversed(ls_attrs), FALSE, ls_numeric).matches
        /\ (/\ ls_pc = "compared"
            /\ lsattr_args.value # None
            /\ ls_attrs = <<[key |-> lsattr_args.attr, value |-> lsattr_args.value]>>)
              => (lsattr_result = ls_result /\ SeqToSet(lsattr_ret) = SeqToSet(ls_ret))

\* The same for the queries and the attributes that are all strings.
C6_StringMatches ==
    (/\ ls_pc \in {"returned", "compared"}
     /\ ls_host_error # "other"
     /\ \A i \in DOMAIN ls_attrs : ls_attrs[i].value.t = "str"
     /\ \A n \in ls_scene : \A a \in n.attrs : a.value.t = "str") =>
        /\ ls_result = "ok"
        /\ SeqToSet(ls_ret) = ExpectedPaths(ls_scene, ls_attrs)
        /\ NoDuplicates(ls_ret)
        /\ SeqToSet(ls_ret) =
              LsattrsOutcome(ls_scene, Reversed(ls_attrs), FALSE, ls_numeric).matches
        /\ (/\ ls_pc = "compared"
            /\ lsattr_args.value # None
            /\ ls_attrs = <<[key |-> lsattr_args.attr, value |-> lsattr_args.value]>>)
              => (lsattr_result = ls_result /\ SeqToSet(lsattr_ret) = SeqToSet(ls_ret))

\* C7: an error of the host while the selection list is built is propagated
\* to the caller unless its message is 'Object does not exist', for which the
\* empty list is returned.
C7_HostErrorPropagates ==
    ls_pc \in {"returned", "compared"} =>
        /\ ls_host_error = "other" => ls_result = "RuntimeError"
        /\ ls_host_error = "Object does not exist" =>
              (ls_result = "ok" /\ ls_ret = <<>>)

\* The half of C7 the code keeps: 'Object does not exist' gives the empty list.
C7_ObjectDoesNotExist ==
    (ls_pc \in {"returned", "compared"} /\ ls_host_error = "Object does not exist") =>
        (ls_result = "ok" /\ ls_ret = <<>>)

\* ------------------------------------------------------------------------
\* serialise_shaders (lib.py:204-304)
\* ------------------------------------------------------------------------
\* A transform has a shape or not (named after it), the mbID attribute or
\* not, and the shading engines its shape is connected to.  A dictionary is
\* a function; a shading engine's members are the shapes connected to it.

ShTransforms == {"|t1", "|t2"}
ShIDs == {None, PyStr(<<"id1">>), PyStr(<<"id2">>)}
ShShaders == {"sg1", "sg2"}

ShScenes ==
    {{[name |-> t, shape |-> f[t].shape, id |-> f[t].id,
       shaders |-> IF f[t].shape THEN f[t].shaders ELSE {}] : t \in ShTransforms}
        : f \in [ShTransforms ->
                    [shape : BOOLEAN, id : ShIDs, shaders : SUBSET ShShaders]]}

ShapeOf(name) == <<name, "Shape">>

IsTransform(scene, name) == \E n \in scene : n.name = name

TransformNamed(scene, name) == CHOOSE n \in scene : n.name = name

\* lib.py:234-241: cmds.ls(nodes, showType=True, type="transform") lists
\* each name followed by its type
RECURSIVE lsShowType(_)
lsShowType(nodes) ==
    IF nodes = <<>> THEN <<>>
    ELSE <<Head(nodes), "transform">> \o lsShowType(Tail(nodes))

\* cmds.listRelatives(names, shapes=True, fullPath=True) or list()
RECURSIVE listShapes(_, _)
listShapes(scene, names) ==
    IF names = <<>> THEN <<>>
    ELSE (IF IsTransform(scene, Head(names)) /\ TransformNamed(scene, Head(names)).shape
          THEN <<ShapeOf(Head(names))>> ELSE <<>>)
         \o listShapes(scene, Tail(names))

\* cmds.getAttr(name + ".mbID"): ValueError (None here) when no object has
\* the name or the object has no such attribute
getID(scene, name) ==
    IF IsTransform(scene, name) THEN TransformNamed(scene, name).id ELSE None

\* dict[key].append(value), the list made when the key is new
AppendAt(dict, key, value) ==
    IF key \in DOMAIN dict
    THEN [dict EXCEPT ![key] = Append(@, value)]
    ELSE dict @@ (key :> <<value>>)

\* lib.py:245-247: the shapes looked at are those of valid_nodes[0]
ShapesChecked(scene, valid_nodes, mesh) == listShapes(scene, <<valid_nodes[1]>>)

\* lib.py:243-263
RECURSIVE MeshesByID(_, _, _, _)
MeshesByID(scene, valid_nodes, rest, meshes_by_id) ==
    IF rest = <<>> THEN meshes_by_id
    ELSE LET mesh == Head(rest)
             shapes == ShapesChecked(scene, valid_nodes, mesh)
             id == getID(scene, mesh)
         IN  IF shapes # <<>> /\ id # None
             THEN MeshesByID(scene, valid_nodes, Tail(rest),
                             AppendAt(meshes_by_id, id, mesh))
             ELSE MeshesByID(scene, valid_nodes, Tail(rest), meshes_by_id)

\* cmds.listConnections(shapes, type="shadingEngine") or list(), one entry
\* for each connection
RECURSIVE listShadingEngines(_, _)
listShadingEngines(scene, shapes) ==
    IF shapes = <<>> THEN <<>>
    ELSE LET owner == CHOOSE n \in scene : ShapeOf(n.name) = Head(shapes)
         IN  (IF "sg1" \in owner.shaders THEN <<"sg1">> ELSE <<>>)
             \o (IF "sg2" \in owner.shaders THEN <<"sg2">> ELSE <<>>)
             \o listShadingEngines(scene, Tail(shapes))

\* cmds.sets(shader, query=True) or list(): the shapes of the whole scene
\* that are members of the shading engine
setMembers(scene, shader) ==
    (IF \E n \in scene : n.name = "|t1" /\ shader \in n.shaders
     THEN <<ShapeOf("|t1")>> ELSE <<>>)
    \o (IF \E n \in scene : n.name = "|t2" /\ shader \in n.shaders
        THEN <<ShapeOf("|t2")>> ELSE <<>>)

\* dict[key].extend(values), the list made when the key is new
ExtendAt(dict, key, values) ==
    IF key \in DOMAIN dict
    THEN [dict EXCEPT ![key] = @ \o values]
    ELSE dict @@ (key :> values)

\* lib.py:271-278: the loop over the shading engines of one id's shapes
RECURSIVE ExtendByShaders(_, _, _)
ExtendByShaders(scene, shaders, meshes_by_shader) ==
    IF shaders = <<>> THEN meshes_by_shader
    ELSE ExtendByShaders(scene, Tail(shaders),
                         ExtendAt(meshes_by_shader, Head(shaders),
                                  setMembers(scene, Head(shaders))))

\* lib.py:265-278: the loop over meshes_by_id.items(), `ids` being the keys
\* still to come
RECURSIVE MeshesByShader(_, _, _, _)
MeshesByShader(scene, meshes_by_id, ids, meshes_by_shader) ==
    IF ids = {} THEN meshes_by_shader
    ELSE LET id == CHOOSE i \in ids : TRUE
             shape == listShapes(scene, meshes_by_id[id])
         IN  MeshesByShader(scene, meshes_by_id, ids \ {id},
                 ExtendByShaders(scene, listShadingEngines(scene, shape),
                                 meshes_by_shader))

\* lib.py:286-299: the ids of the members' transforms, a member whose
\* transform has no mbID left out
RECURSIVE MemberIDs(_, _)
MemberIDs(scene, shaded) ==
    IF shaded = <<>> THEN <<>>
    ELSE LET transform == Head(shaded)[1]   \* the parent of the mesh
             id == getID(scene, transform)
         IN  (IF id # None THEN <<id.v>> ELSE <<>>) \o MemberIDs(scene, Tail(shaded))

\* list(set(s)): the elements of s, each once
RECURSIVE ListOfSet(_)
ListOfSet(S) ==
    IF S = {} THEN <<>>
    ELSE LET x == CHOOSE y \in S : TRUE IN <<x>> \o ListOfSet(S \ {x})

\* lib.py:280-302
ShaderByID(scene, meshes_by_shader) ==
    [shader \in DOMAIN meshes_by_shader |->
        ListOfSet(SeqToSet(MemberIDs(scene, meshes_by_shader[shader])))]

\* lib.py:234-304
SerialiseShaders(scene, nodes) ==
    LET valid_nodes == lsShowType(nodes)
        meshes_by_id == MeshesByID(scene, valid_nodes, valid_nodes, <<>>)
        meshes_by_shader ==
            MeshesByShader(scene, meshes_by_id, DOMAIN meshes_by_id, <<>>)
    IN  ShaderByID(scene, meshes_by_shader)

InitSh ==
    /\ sh_scene \in ShScenes
    /\ sh_nodes = <<>>
    /\ sh_ret = <<>>
    /\ sh_pc = "call"
    /\ IdleSel /\ IdleName /\ IdleAbc /\ IdleAttr /\ IdleVal /\ IdleLs

\* serialise_shaders(nodes)
Serialise ==
    /\ sh_pc = "call"
    /\ \E nodes \in Arrangements(ShTransforms) \ {<<>>} :
          /\ sh_nodes' = nodes
          /\ sh_ret' = SerialiseShaders(sh_scene, nodes)
    /\ sh_pc' = "returned"
    /\ UNCHANGED sh_scene
    /\ UNCHANGED <<selVars, nameVars, abcVars, attrVars, valVars, lsVars>>

NextSh == Serialise

SpecSh == InitSh /\ [][NextSh]_vars

\* C9: every transform among the nodes that has a shape and mbID has each
\* shading engine of its shape as a key of the result, whatever the order of
\* the nodes and whether or not the first has a shape, and no list of the
\* result holds a value twice.
C9_EveryShadedTransformListed ==
    sh_pc = "returned" =>
        /\ \A n \in sh_scene :
              (n.name \in SeqToSet(sh_nodes) /\ n.shape /\ n.id # None) =>
                  n.shaders \subseteq DOMAIN sh_ret
        /\ \A shader \in DOMAIN sh_ret : NoDuplicates(sh_ret[shader])

\* What holds of the code: the lists are free of duplicates, and the keys are
\* there when the first node has a shape.
C9_WhenFirstHasShape ==
    sh_pc = "returned" =>
        /\ (TransformNamed(sh_scene, sh_nodes[1]).shape =>
              \A n \in sh_scene :
                  (n.name \in SeqToSet(sh_nodes) /\ n.shape /\ n.id # None) =>
                      n.shaders \subseteq DOMAIN sh_ret)
        /\ \A shader \in DOMAIN sh_ret : NoDuplicates(sh_ret[shader])

====
